---- MODULE Spec2Model ----
(***************************************************************************)
(* State-machine model of two parts of libosmium:                          *)
(*                                                                         *)
(*   - osmium::io::detail::ReadThread (read_thread.hpp): the producer      *)
(*     thread body that reads chunks from a Decompressor and pushes them   *)
(*     onto a queue, together with the consumer that pops from that queue  *)
(*     and the owner that sets the m_done flag;                            *)
(*   - osmium::util::MemoryMapping (memory_mapping.hpp): the wrapper of    *)
(*     the mmap/munmap/mremap (Unix) and CreateFileMapping/MapViewOfFile/  *)
(*     UnmapViewOfFile/CloseHandle (Windows) calls.                        *)
(*                                                                         *)
(* Spec     : the read pipeline, every interleaving of producer, consumer  *)
(*            and cancellation.                                            *)
(* FairSpec : Spec with weak fairness of the producer and consumer steps.  *)
(* MemSpec  : sequences of MemoryMapping operations on a bounded set of    *)
(*            objects, with every OS call free to succeed or fail.         *)
(***************************************************************************)
EXTENDS Integers, Sequences, FiniteSets, TLC

\* ------------------------------------------------------------------------
\* Bounds of the model
\* ------------------------------------------------------------------------

\* Largest number of non-empty chunks Decompressor::read() returns in a run.
MaxChunks == 12

\* ------------------------------------------------------------------------
\* Program constants
\* ------------------------------------------------------------------------

\* read_thread.hpp:81  while (m_queue.size() > 10 && !m_done)
Watermark == 10

VARIABLES
    \* ---- ReadThread and its surroundings
    pc,          \* position of the producer thread in ReadThread::operator()
    data,        \* the local std::string data of the loop body
    m_queue,     \* osmium::thread::Queue<std::string>, head first
    m_done,      \* std::atomic<bool>& m_done
    reads,       \* history: the chunks read() has returned, in order
    popped,      \* history: the chunks the consumer has popped, in order
    cpc,         \* consumer: "popping" until it pops an empty chunk
    closeCalls,  \* history: number of calls of m_decompressor->close()
    sentinels,   \* history: number of empty chunks pushed onto the queue
    thrown,      \* history: exceptions that left operator() (seen at the join)
    failure,     \* history: which Decompressor call threw ("none" if none)
    cancelMid,   \* history: m_done was set mid-stream
    cancelAt,    \* history: what had been read and pushed when m_done was set
    \* ---- MemoryMapping and the operating system
    platform,    \* the build: "linux", "unix" (non-Linux Unix) or "windows"
    ndebug,      \* the build: TRUE when assert() is compiled out (NDEBUG)
    sizeofT,     \* the build: sizeof(T) of the TypedMemoryMapping<T> in use
    objs,        \* the MemoryMapping objects, by name
    os_maps,     \* the OS: every mapping (view) ever made, by address
    os_handles,  \* the OS (Windows): every file mapping object ever made
    fileLen,     \* the OS: length of the file behind the descriptor
    unmapRefused,\* history: the OS has refused to release a mapping
    calls,       \* the OS calls the last operation made, in order
    exc,         \* how the last operation ended ("none": it returned)
    aborted      \* the process was ended by assert() or std::terminate()

pipeVars == <<pc, data, m_queue, m_done, reads, popped, cpc, closeCalls,
              sentinels, thrown, failure, cancelMid, cancelAt>>

memVars == <<platform, ndebug, sizeofT, objs, os_maps, os_handles, fileLen,
             unmapRefused, calls, exc, aborted>>

vars == <<pc, data, m_queue, m_done, reads, popped, cpc, closeCalls,
          sentinels, thrown, failure, cancelMid, cancelAt,
          platform, ndebug, sizeofT, objs, os_maps, os_handles, fileLen,
          unmapRefused, calls, exc, aborted>>

\* ------------------------------------------------------------------------
\* Chunks (std::string): a chunk is a sequence; the empty string is <<>>.
\* The k-th non-empty chunk of the stream is <<k>>, so that every chunk of
\* a run is distinguishable from every other.
\* ------------------------------------------------------------------------

EmptyChunk == <<>>

Chunk(k) == <<k>>

\* std::string::empty()
Empty(s) == Len(s) = 0

RECURSIVE NonEmpty(_)
\* The non-empty chunks of a sequence of chunks, in order.
NonEmpty(s) ==
    IF s = <<>> THEN <<>>
    ELSE IF Empty(Head(s)) THEN NonEmpty(Tail(s))
         ELSE <<Head(s)>> \o NonEmpty(Tail(s))

\* s is a prefix of t
IsPrefix(s, t) == Len(s) <= Len(t) /\ SubSeq(t, 1, Len(s)) = s

\* ------------------------------------------------------------------------
\* osmium::thread::Queue<std::string>: a thread-safe FIFO queue.
\* ------------------------------------------------------------------------

\* Queue::push
QueuePush(q, x) == Append(q, x)

\* Queue::size
QueueSize(q) == Len(q)

\* The producer pushes x: the queue grows and the history counts sentinels.
Push(x) ==
    /\ m_queue' = QueuePush(m_queue, x)
    /\ sentinels' = IF Empty(x) THEN sentinels + 1 ELSE sentinels

\* ------------------------------------------------------------------------
\* ReadThread::operator()
\* ------------------------------------------------------------------------

ProducerPcs == {"while", "read", "push", "wait", "wait_done", "sleep",
                "close", "catch", "rethrow", "returned", "failed"}

\* The thread function has ended: return true, or the re-thrown exception.
Terminated == pc \in {"returned", "failed"}

PipeInit ==
    /\ pc = "while"
    /\ data = EmptyChunk
    /\ m_queue = <<>>
    /\ m_done = FALSE
    /\ reads = <<>>
    /\ popped = <<>>
    /\ cpc = "popping"
    /\ closeCalls = 0
    /\ sentinels = 0
    /\ thrown = 0
    /\ failure = "none"
    /\ cancelMid = FALSE
    /\ cancelAt = [reads |-> 0, pushes |-> 0, failure |-> "none"]

\* while (!m_done)
P_While ==
    /\ pc = "while"
    /\ pc' = IF m_done THEN "close" ELSE "read"
    /\ UNCHANGED <<data, m_queue, m_done, reads, popped, cpc, closeCalls,
                   sentinels, thrown, failure, cancelMid, cancelAt>>
    /\ UNCHANGED memVars

\* std::string data {m_decompressor->read()};
\* read() returns the next non-empty chunk, or an empty chunk at the end of
\* the stream, or throws.
P_Read ==
    /\ pc = "read"
    /\ \/ /\ Len(reads) < MaxChunks
          /\ data' = Chunk(Len(reads) + 1)
          /\ reads' = Append(reads, Chunk(Len(reads) + 1))
          /\ pc' = "push"
          /\ UNCHANGED failure
       \/ /\ data' = EmptyChunk
          /\ reads' = Append(reads, EmptyChunk)
          /\ pc' = "push"
          /\ UNCHANGED failure
       \/ /\ failure' = "read"
          /\ pc' = "catch"
          /\ UNCHANGED <<data, reads>>
    /\ UNCHANGED <<m_queue, m_done, popped, cpc, closeCalls, sentinels,
                   thrown, cancelMid, cancelAt>>
    /\ UNCHANGED memVars

\* Mutant of P_PushEmpty: the break is missing, the loop goes on.
P_PushEmpty_NoBreak ==
    /\ pc = "push"
    /\ Empty(data)
    /\ Push(data)
    /\ pc' = "wait"
    /\ UNCHANGED <<data, m_done, reads, popped, cpc, closeCalls, thrown,
                   failure, cancelMid, cancelAt>>
    /\ UNCHANGED memVars

\* if (data.empty()) { m_queue.push(std::move(data)); break; }
P_PushEmpty ==
    /\ pc = "push"
    /\ Empty(data)
    /\ Push(data)
    /\ pc' = "close"
    /\ UNCHANGED <<data, m_done, reads, popped, cpc, closeCalls, thrown,
                   failure, cancelMid, cancelAt>>
    /\ UNCHANGED memVars

\* Mutant of P_PushData: the chunk is pushed twice.
P_PushData_Twice ==
    /\ pc = "push"
    /\ ~Empty(data)
    /\ m_queue' = QueuePush(QueuePush(m_queue, data), data)
    /\ pc' = "wait"
    /\ UNCHANGED <<data, m_done, reads, popped, cpc, closeCalls, sentinels,
                   thrown, failure, cancelMid, cancelAt>>
    /\ UNCHANGED memVars

\* m_queue.push(std::move(data));
P_PushData ==
    /\ pc = "push"
    /\ ~Empty(data)
    /\ Push(data)
    /\ pc' = "wait"
    /\ UNCHANGED <<data, m_done, reads, popped, cpc, closeCalls, thrown,
                   failure, cancelMid, cancelAt>>
    /\ UNCHANGED memVars

\* Mutant of QueueOverWatermark: the producer never waits.
QueueOverWatermark_Never(q) == FALSE

\* Mutant of QueueOverWatermark: the threshold is off by one.
QueueOverWatermark_OffByOne(q) == QueueSize(q) > Watermark + 1

\* m_queue.size() > 10
QueueOverWatermark(q) == QueueSize(q) > Watermark

\* while (m_queue.size() > 10 && !m_done): the left operand
P_WaitSize ==
    /\ pc = "wait"
    /\ pc' = IF QueueOverWatermark(m_queue) THEN "wait_done" ELSE "while"
    /\ UNCHANGED <<data, m_queue, m_done, reads, popped, cpc, closeCalls,
                   sentinels, thrown, failure, cancelMid, cancelAt>>
    /\ UNCHANGED memVars

\* Mutant of P_WaitDone: the wait does not look at the flag.
P_WaitDone_IgnoreFlag ==
    /\ pc = "wait_done"
    /\ pc' = "sleep"
    /\ UNCHANGED <<data, m_queue, m_done, reads, popped, cpc, closeCalls,
                   sentinels, thrown, failure, cancelMid, cancelAt>>
    /\ UNCHANGED memVars

\* while (m_queue.size() > 10 && !m_done): the right operand
P_WaitDone ==
    /\ pc = "wait_done"
    /\ pc' = IF ~m_done THEN "sleep" ELSE "while"
    /\ UNCHANGED <<data, m_queue, m_done, reads, popped, cpc, closeCalls,
                   sentinels, thrown, failure, cancelMid, cancelAt>>
    /\ UNCHANGED memVars

\* std::this_thread::sleep_for(std::chrono::milliseconds(10));
P_Sleep ==
    /\ pc = "sleep"
    /\ pc' = "wait"
    /\ UNCHANGED <<data, m_queue, m_done, reads, popped, cpc, closeCalls,
                   sentinels, thrown, failure, cancelMid, cancelAt>>
    /\ UNCHANGED memVars

\* m_decompressor->close(); followed by return true, unless close() throws.
P_Close ==
    /\ pc = "close"
    /\ closeCalls' = closeCalls + 1
    /\ \/ /\ pc' = "returned"
          /\ UNCHANGED failure
       \/ /\ pc' = "catch"
          /\ failure' = "close"
    /\ UNCHANGED <<data, m_queue, m_done, reads, popped, cpc, sentinels,
                   thrown, cancelMid, cancelAt>>
    /\ UNCHANGED memVars

\* Mutant of P_CatchPush: the handler re-throws without pushing.
P_CatchPush_NoPush ==
    /\ pc = "catch"
    /\ pc' = "rethrow"
    /\ UNCHANGED <<data, m_queue, m_done, reads, popped, cpc, closeCalls,
                   sentinels, thrown, failure, cancelMid, cancelAt>>
    /\ UNCHANGED memVars

\* catch (...) { m_queue.push(std::string());
P_CatchPush ==
    /\ pc = "catch"
    /\ Push(EmptyChunk)
    /\ pc' = "rethrow"
    /\ UNCHANGED <<data, m_done, reads, popped, cpc, closeCalls, thrown,
                   failure, cancelMid, cancelAt>>
    /\ UNCHANGED memVars

\* throw; }  The exception leaves the thread function.
P_Rethrow ==
    /\ pc = "rethrow"
    /\ thrown' = thrown + 1
    /\ pc' = "failed"
    /\ UNCHANGED <<data, m_queue, m_done, reads, popped, cpc, closeCalls,
                   sentinels, failure, cancelMid, cancelAt>>
    /\ UNCHANGED memVars

Producer ==
    \/ P_While
    \/ P_Read
    \/ P_PushEmpty
    \/ P_PushData
    \/ P_WaitSize
    \/ P_WaitDone
    \/ P_Sleep
    \/ P_Close
    \/ P_CatchPush
    \/ P_Rethrow

\* ------------------------------------------------------------------------
\* The consumer and the owner of the flag
\* ------------------------------------------------------------------------

\* The stream is between its first non-empty chunk and its end.
MidStream ==
    /\ Len(reads) >= 1
    /\ ~Empty(reads[Len(reads)])
    /\ failure = "none"

\* The consumer blocks on pop while the queue is empty, and stops popping
\* at the first empty chunk.
C_Pop ==
    /\ cpc = "popping"
    /\ Len(m_queue) > 0
    /\ popped' = Append(popped, Head(m_queue))
    /\ m_queue' = Tail(m_queue)
    /\ cpc' = IF Empty(Head(m_queue)) THEN "finished" ELSE "popping"
    /\ UNCHANGED <<pc, data, m_done, reads, closeCalls, sentinels, thrown,
                   failure, cancelMid, cancelAt>>
    /\ UNCHANGED memVars

\* The main thread sets the flag (m_done = true), at any time.
Cancel ==
    /\ ~m_done
    /\ m_done' = TRUE
    /\ cancelMid' = MidStream
    /\ cancelAt' = [reads |-> Len(reads),
                    pushes |-> Len(popped) + QueueSize(m_queue),
                    failure |-> failure]
    /\ UNCHANGED <<pc, data, m_queue, reads, popped, cpc, closeCalls,
                   sentinels, thrown, failure>>
    /\ UNCHANGED memVars

\* ------------------------------------------------------------------------
\* MemoryMapping: values
\* ------------------------------------------------------------------------

\* The MemoryMapping objects of the program.
Objs == {"a", "b"}

\* enum class mapping_mode
Modes == {"readonly", "write_private", "write_shared"}

\* fd == -1: anonymous mapping
AnonFd == -1

\* MAP_FAILED (Unix), nullptr (Windows): the address of an invalid mapping.
InvalidAddr == 0

\* A null HANDLE
NullHandle == 0

\* osmium::get_pagesize(), scaled down
PageSize == 2

\* Most mappings (views), and most mapping objects, the OS makes in a run;
\* a further mmap, mremap with a move, CreateFileMapping or MapViewOfFile
\* fails.
MaxMaps == 2

\* What the callers ask for when they construct a mapping: an anonymous
\* private mapping of size 0 (one page), a shared writable mapping of a file
\* at an offset, a read-only mapping of the file.
Requests ==
    {[size |-> 0, mode |-> "write_private", fd |-> AnonFd, offset |-> 0],
     [size |-> 1, mode |-> "write_shared", fd |-> 3, offset |-> 1],
     [size |-> 1, mode |-> "readonly", fd |-> 3, offset |-> 0]}

\* The new sizes the callers resize to.
ResizeSizes == {1, 2}

\* An object that is not constructed (never was, or was destroyed).
NoObj ==
    [st |-> "none", m_size |-> 0, m_offset |-> 0, m_fd |-> AnonFd,
     m_mapping_mode |-> "readonly", m_handle |-> NullHandle,
     m_addr |-> InvalidAddr]

\* A mapping the OS has released. unmaps counts the releases of its address.
DeadMap(n) == [live |-> FALSE, owner |-> "none", unmaps |-> n]

DeadHandle == [live |-> FALSE, owner |-> "none"]

\* The state operations act on: the objects and the OS, with the log of the
\* OS calls made so far by the operation.
World ==
    [objs |-> objs, maps |-> os_maps, handles |-> os_handles,
     fileLen |-> fileLen, refused |-> unmapRefused, calls |-> <<>>]

\* The operation makes the OS call name with the arguments args; ok tells
\* whether the call succeeds.
Call(w, name, args, ok) ==
    [w EXCEPT !.calls = Append(@, [call |-> name, args |-> args, ok |-> ok])]

Min2(x, y) == IF x < y THEN x ELSE y

\* ------------------------------------------------------------------------
\* The operating system. Each call returns the set of its possible results.
\* owner is a ghost value: the object on whose behalf the mapping exists.
\* ------------------------------------------------------------------------

LiveAddr(w, a) == a \in 1..Len(w.maps) /\ w.maps[a].live

LiveHandle(w, h) == h \in 1..Len(w.handles) /\ w.handles[h].live

\* ::mmap and MapViewOfFile: a new mapping, or failure.
OsMap(w, name, args, owner) ==
    {[w |-> Call(w, name, args, FALSE), addr |-> InvalidAddr]}
    \cup (IF Len(w.maps) < MaxMaps
          THEN {[w |-> [Call(w, name, args, TRUE) EXCEPT !.maps =
                          Append(@, [live |-> TRUE, owner |-> owner,
                                     unmaps |-> 0])],
                 addr |-> Len(w.maps) + 1]}
          ELSE {})

\* ::munmap and UnmapViewOfFile: the mapping is released, or the call fails
\* and the mapping stays.
OsUnmap(w, name, a) ==
    IF LiveAddr(w, a)
    THEN {[w |-> [Call(w, name, <<a>>, TRUE) EXCEPT !.maps[a] = DeadMap(1)],
           ok |-> TRUE],
          [w |-> [Call(w, name, <<a>>, FALSE) EXCEPT !.refused = TRUE],
           ok |-> FALSE]}
    ELSE IF a \in 1..Len(w.maps)
    THEN {[w |-> [Call(w, name, <<a>>, b) EXCEPT
                    !.maps[a].unmaps = Min2(@ + 1, 2)],
           ok |-> b] : b \in BOOLEAN}
    ELSE {[w |-> Call(w, name, <<a>>, FALSE), ok |-> FALSE]}

\* ::mremap(addr, old_size, new_size, MREMAP_MAYMOVE): the mapping is
\* resized where it is, or moved to a new address, or the call fails and
\* leaves the mapping as it was.
OsRemap(w, a, new_size) ==
    {[w |-> Call(w, "mremap", <<a, new_size>>, FALSE), addr |-> InvalidAddr]}
    \cup (IF LiveAddr(w, a)
          THEN {[w |-> Call(w, "mremap", <<a, new_size>>, TRUE), addr |-> a]}
          ELSE {})
    \cup (IF LiveAddr(w, a) /\ Len(w.maps) < MaxMaps
          THEN {[w |-> [Call(w, "mremap", <<a, new_size>>, TRUE) EXCEPT
                          !.maps = Append([@ EXCEPT ![a] = DeadMap(1)],
                                          w.maps[a])],
                 addr |-> Len(w.maps) + 1]}
          ELSE {})

\* CreateFileMapping: a new mapping object, or failure (a null handle).
OsCreateFileMapping(w, args, owner) ==
    {[w |-> Call(w, "CreateFileMapping", args, FALSE), handle |-> NullHandle]}
    \cup (IF Len(w.handles) < MaxMaps
          THEN {[w |-> [Call(w, "CreateFileMapping", args, TRUE) EXCEPT
                          !.handles = Append(@, [live |-> TRUE,
                                                 owner |-> owner])],
                 handle |-> Len(w.handles) + 1]}
          ELSE {})

\* CloseHandle: the mapping object is released, or the call fails.
OsCloseHandle(w, h) ==
    IF LiveHandle(w, h)
    THEN {[w |-> [Call(w, "CloseHandle", <<h>>, TRUE) EXCEPT
                    !.handles[h] = DeadHandle],
           ok |-> TRUE],
          [w |-> Call(w, "CloseHandle", <<h>>, FALSE), ok |-> FALSE]}
    ELSE {[w |-> Call(w, "CloseHandle", <<h>>, FALSE), ok |-> FALSE]}

\* osmium::file_size(fd)
file_size(w, fd) == w.fileLen

\* osmium::resize_file(fd, new_size): the file gets the new length, or the
\* call fails (a file that is not writable, a full disk) and throws.
resize_file(w, fd, new_size) ==
    {[w |-> [Call(w, "ftruncate", <<fd, new_size>>, TRUE) EXCEPT
               !.fileLen = new_size],
      exc |-> "none"],
     [w |-> Call(w, "ftruncate", <<fd, new_size>>, FALSE),
      exc |-> "system_error"]}

\* ------------------------------------------------------------------------
\* MemoryMapping: private members
\* ------------------------------------------------------------------------

\* is_valid(): m_addr != MAP_FAILED (Unix), m_addr != nullptr (Windows)
is_valid(r) == r.m_addr /= InvalidAddr

\* A make_invalid() that leaves the address as it is.
make_invalid_Noop(r) == r

\* make_invalid()
make_invalid(r) == [r EXCEPT !.m_addr = InvalidAddr]

\* A check_size that returns the size as it is.
check_size_AsIs(size) == size

\* check_size(size)
check_size(size) == IF size = 0 THEN PageSize ELSE size

\* get_protection()
get_protection(r) ==
    IF platform = "windows"
    THEN CASE r.m_mapping_mode = "readonly" -> {"PAGE_READONLY"}
           [] r.m_mapping_mode = "write_private" -> {"PAGE_WRITECOPY"}
           [] OTHER -> {"PAGE_READWRITE"}
    ELSE IF r.m_mapping_mode = "readonly"
         THEN {"PROT_READ"}
         ELSE {"PROT_READ", "PROT_WRITE"}

\* get_flags()
get_flags(r) ==
    IF platform = "windows"
    THEN CASE r.m_mapping_mode = "readonly" -> {"FILE_MAP_READ"}
           [] r.m_mapping_mode = "write_private" -> {"FILE_MAP_COPY"}
           [] OTHER -> {"FILE_MAP_WRITE"}
    ELSE IF r.m_fd = AnonFd
         THEN {"MAP_PRIVATE", "MAP_ANONYMOUS"}
         ELSE IF r.m_mapping_mode = "write_shared"
              THEN {"MAP_SHARED"}
              ELSE {"MAP_PRIVATE"}

\* Mutant of resize_fd: the file is given the length size + offset, longer
\* or shorter than it was.
resize_fd_Exact(w, r, fd) ==
    IF fd = AnonFd
    THEN {[w |-> w, exc |-> "none"]}
    ELSE IF file_size(w, fd) /= r.m_size + r.m_offset
         THEN resize_file(w, fd, r.m_size + r.m_offset)
         ELSE {[w |-> w, exc |-> "none"]}

\* A resize_fd that leaves the file as it is.
resize_fd_NoGrow(w, r, fd) == {[w |-> w, exc |-> "none"]}

\* resize_fd(fd), called on the object r: the file is made large enough for
\* r.m_size bytes at r.m_offset. The results carry exc = "system_error" when
\* resize_file threw.
resize_fd(w, r, fd) ==
    IF fd = AnonFd
    THEN {[w |-> w, exc |-> "none"]}
    ELSE IF file_size(w, fd) < r.m_size + r.m_offset
         THEN resize_file(w, fd, r.m_size + r.m_offset)
         ELSE {[w |-> w, exc |-> "none"]}

\* Mutant of MapArgs: the mapping starts at the beginning of the file.
MapArgs_NoOffset(r) ==
    <<r.m_size, get_protection(r), get_flags(r), r.m_fd, 0>>

\* ::mmap(nullptr, m_size, get_protection(), get_flags(), m_fd, m_offset)
MapArgs(r) ==
    <<r.m_size, get_protection(r), get_flags(r), r.m_fd, r.m_offset>>

\* create_file_mapping(): CreateFileMapping(get_handle(), nullptr,
\* get_protection(), dword_hi/lo(m_size + m_offset), nullptr)
FileMappingArgs(r) == <<r.m_fd, get_protection(r), r.m_size + r.m_offset>>

\* map_view_of_file(): MapViewOfFile(m_handle, get_flags(),
\* dword_hi/lo(m_offset), m_size)
ViewArgs(r) == <<get_flags(r), r.m_offset, r.m_size>>

\* An assert(cond) that ends the process: cond is false and the build has
\* assertions.
AssertFails(cond) == ~cond /\ ~ndebug

\* Ghost: the mapping at address a and the mapping object h now exist on
\* behalf of object o.
GiveTo(w, a, h, o) ==
    [w EXCEPT
       !.maps = [i \in 1..Len(w.maps) |->
                    IF i = a /\ w.maps[i].live
                    THEN [w.maps[i] EXCEPT !.owner = o] ELSE w.maps[i]],
       !.handles = [i \in 1..Len(w.handles) |->
                    IF i = h /\ w.handles[i].live
                    THEN [w.handles[i] EXCEPT !.owner = o] ELSE w.handles[i]]]

\* Ghost: object o is gone; what still exists on its behalf has no owner.
Orphan(w, o) ==
    [w EXCEPT
       !.maps = [i \in 1..Len(w.maps) |->
                    IF w.maps[i].owner = o
                    THEN [w.maps[i] EXCEPT !.owner = "none"] ELSE w.maps[i]],
       !.handles = [i \in 1..Len(w.handles) |->
                    IF w.handles[i].owner = o
                    THEN [w.handles[i] EXCEPT !.owner = "none"] ELSE w.handles[i]]]

\* ------------------------------------------------------------------------
\* MemoryMapping: operations. Each returns the set of its possible results
\* [w |-> the state after, exc |-> how it ended]:
\*   "none"          it returned,
\*   "system_error"  it threw std::system_error,
\*   "abort"         an assert() ended the process,
\*   "terminate"     an exception left a noexcept function.
\* ------------------------------------------------------------------------

\* Mutant of unmap_unix: the object is made invalid before the call.
unmap_unix_InvalidFirst(w, o) ==
    LET r == w.objs[o]
    IN  IF is_valid(r)
        THEN {[w |-> [u.w EXCEPT !.objs[o] = make_invalid(r)],
               exc |-> IF u.ok THEN "none" ELSE "system_error"] :
                  u \in OsUnmap(w, "munmap", r.m_addr)}
        ELSE {[w |-> w, exc |-> "none"]}

\* Unix: void MemoryMapping::unmap()
unmap_unix(w, o) ==
    LET r == w.objs[o]
    IN  IF is_valid(r)
        THEN {IF u.ok
              THEN [w |-> [u.w EXCEPT !.objs[o] = make_invalid(r)],
                    exc |-> "none"]
              ELSE [w |-> u.w, exc |-> "system_error"] :
                  u \in OsUnmap(w, "munmap", r.m_addr)}
        ELSE {[w |-> w, exc |-> "none"]}

\* Windows: void MemoryMapping::unmap(), the handle's part
unmap_windows_handle(w, o) ==
    LET r == w.objs[o]
    IN  IF r.m_handle /= NullHandle
        THEN {IF c.ok
              THEN [w |-> [c.w EXCEPT !.objs[o].m_handle = NullHandle],
                    exc |-> "none"]
              ELSE [w |-> c.w, exc |-> "system_error"] :
                  c \in OsCloseHandle(w, r.m_handle)}
        ELSE {[w |-> w, exc |-> "none"]}

\* Windows: void MemoryMapping::unmap()
unmap_windows(w, o) ==
    LET r == w.objs[o]
        views ==
            IF is_valid(r)
            THEN {IF u.ok
                  THEN [w |-> [u.w EXCEPT !.objs[o] = make_invalid(r)],
                        exc |-> "none"]
                  ELSE [w |-> u.w, exc |-> "system_error"] :
                      u \in OsUnmap(w, "UnmapViewOfFile", r.m_addr)}
            ELSE {[w |-> w, exc |-> "none"]}
    IN  UNION {IF v.exc /= "none" THEN {v} ELSE unmap_windows_handle(v.w, o) :
                   v \in views}

\* void MemoryMapping::unmap()
unmap(w, o) ==
    IF platform = "windows" THEN unmap_windows(w, o) ELSE unmap_unix(w, o)

\* The members as the constructor's initializers set them, before the
\* mapping call.
Initialized(size, mode, fd, offset) ==
    [st |-> "live", m_size |-> check_size(size), m_offset |-> offset,
     m_fd |-> fd, m_mapping_mode |-> mode, m_handle |-> NullHandle,
     m_addr |-> InvalidAddr]

\* Unix: MemoryMapping::MemoryMapping(size, mode, fd, offset)
ctor_unix(w, o, size, mode, fd, offset) ==
    LET r0 == Initialized(size, mode, fd, offset)
    IN  UNION {
          IF f.exc /= "none"
          THEN {[w |-> f.w, exc |-> "system_error"]}
          ELSE {IF AssertFails(~(fd = AnonFd /\ mode = "readonly"))
                THEN [w |-> Orphan(m.w, o), exc |-> "abort"]
                ELSE IF m.addr = InvalidAddr
                THEN [w |-> m.w, exc |-> "system_error"]
                ELSE [w |-> [m.w EXCEPT !.objs[o] =
                                [r0 EXCEPT !.m_addr = m.addr]],
                      exc |-> "none"] :
                    m \in OsMap(f.w, "mmap", MapArgs(r0), o)} :
              f \in resize_fd(w, r0, fd)}

\* Windows: MemoryMapping::MemoryMapping(size, mode, fd, offset)
ctor_windows(w, o, size, mode, fd, offset) ==
    LET r0 == Initialized(size, mode, fd, offset)
    IN  UNION {
          IF f.exc /= "none"
          THEN {[w |-> f.w, exc |-> "system_error"]}
          ELSE UNION {
                 IF h.handle = NullHandle
                 THEN {[w |-> h.w, exc |-> "system_error"]}
                 ELSE {IF v.addr = InvalidAddr
                       THEN [w |-> Orphan(v.w, o), exc |-> "system_error"]
                       ELSE [w |-> [v.w EXCEPT !.objs[o] =
                                       [r0 EXCEPT !.m_handle = h.handle,
                                                  !.m_addr = v.addr]],
                             exc |-> "none"] :
                           v \in OsMap(h.w, "MapViewOfFile", ViewArgs(r0), o)} :
                     h \in OsCreateFileMapping(f.w, FileMappingArgs(r0), o)} :
              f \in resize_fd(w, r0, fd)}

\* MemoryMapping::MemoryMapping(size, mode, fd, offset)
ctor(w, o, size, mode, fd, offset) ==
    IF platform = "windows"
    THEN ctor_windows(w, o, size, mode, fd, offset)
    ELSE ctor_unix(w, o, size, mode, fd, offset)

\* A transfer that leaves other (p) as it was.
Transfer_KeepSource(w, o, p) ==
    GiveTo([w EXCEPT !.objs[o] = w.objs[p]], w.objs[p].m_addr,
           w.objs[p].m_handle, o)

\* The member-wise transfer both move operations make from other (p) to
\* this (o), after which other is made invalid. On Unix there is no
\* m_handle; it stays null.
Transfer(w, o, p) ==
    LET src == w.objs[p]
        w1 == [w EXCEPT !.objs[o] = src]
        w2 == [w1 EXCEPT !.objs[p] =
                  IF platform = "windows"
                  THEN [make_invalid(w1.objs[p]) EXCEPT !.m_handle = NullHandle]
                  ELSE make_invalid(w1.objs[p])]
    IN  GiveTo(w2, src.m_addr, src.m_handle, o)

\* MemoryMapping::MemoryMapping(MemoryMapping&& other) noexcept
move_ctor(w, o, p) == {[w |-> Transfer(w, o, p), exc |-> "none"]}

\* Unix: MemoryMapping& operator=(MemoryMapping&& other) noexcept
\* An exception of unmap() is caught and ignored.
move_assign_unix(w, o, p) ==
    {[w |-> Transfer(u.w, o, p), exc |-> "none"] : u \in unmap_unix(w, o)}

\* Windows: MemoryMapping& operator=(MemoryMapping&& other) noexcept
\* An exception of unmap() leaves a noexcept function.
move_assign_windows(w, o, p) ==
    {IF u.exc /= "none"
     THEN [w |-> u.w, exc |-> "terminate"]
     ELSE [w |-> Transfer(u.w, o, p), exc |-> "none"] :
         u \in unmap_windows(w, o)}

\* MemoryMapping& operator=(MemoryMapping&& other) noexcept
move_assign(w, o, p) ==
    IF platform = "windows"
    THEN move_assign_windows(w, o, p)
    ELSE move_assign_unix(w, o, p)

\* A destructor that lets an exception of unmap() out.
dtor_Propagating(w, o) ==
    {IF u.exc = "none"
     THEN [w |-> [Orphan(u.w, o) EXCEPT !.objs[o] = NoObj], exc |-> "none"]
     ELSE [w |-> u.w, exc |-> "terminate"] :
         u \in unmap(w, o)}

\* MemoryMapping::~MemoryMapping() noexcept
\* An exception of unmap() is caught and ignored; the object is gone.
dtor(w, o) ==
    {[w |-> [Orphan(u.w, o) EXCEPT !.objs[o] = NoObj], exc |-> "none"] :
         u \in unmap(w, o)}

\* Unix: resize(new_size) of an anonymous mapping
resize_unix_anon(w, o, new_size) ==
    IF platform = "linux"
    THEN {IF m.addr = InvalidAddr
          THEN [w |-> [m.w EXCEPT !.objs[o].m_addr = m.addr],
                exc |-> "system_error"]
          ELSE [w |-> [m.w EXCEPT !.objs[o].m_addr = m.addr,
                                  !.objs[o].m_size = new_size],
                exc |-> "none"] :
              m \in OsRemap(w, w.objs[o].m_addr, new_size)}
    ELSE IF AssertFails(FALSE)
         THEN {[w |-> w, exc |-> "abort"]}
         ELSE {[w |-> w, exc |-> "none"]}

\* Unix: resize(new_size) of a file-based mapping
resize_unix_file(w, o, new_size) ==
    UNION {
      IF u.exc /= "none"
      THEN {u}
      ELSE LET w1 == [u.w EXCEPT !.objs[o].m_size = new_size]
               r1 == w1.objs[o]
           IN  UNION {
                 IF f.exc /= "none"
                 THEN {f}
                 ELSE {[w |-> [m.w EXCEPT !.objs[o].m_addr = m.addr],
                        exc |-> IF m.addr = InvalidAddr
                                THEN "system_error" ELSE "none"] :
                           m \in OsMap(f.w, "mmap",
                                       MapArgs([r1 EXCEPT !.m_size = new_size]),
                                       o)} :
                     f \in resize_fd(w1, r1, r1.m_fd)} :
          u \in unmap_unix(w, o)}

\* Unix: void MemoryMapping::resize(std::size_t new_size)
resize_unix(w, o, new_size) ==
    IF AssertFails(new_size > 0)
    THEN {[w |-> w, exc |-> "abort"]}
    ELSE IF w.objs[o].m_fd = AnonFd
         THEN resize_unix_anon(w, o, new_size)
         ELSE resize_unix_file(w, o, new_size)

\* Windows: void MemoryMapping::resize(std::size_t new_size)
resize_windows(w, o, new_size) ==
    UNION {
      IF u.exc /= "none"
      THEN {u}
      ELSE LET w1 == [u.w EXCEPT !.objs[o].m_size = new_size]
               r1 == w1.objs[o]
           IN  UNION {
                 IF f.exc /= "none"
                 THEN {f}
                 ELSE UNION {
                        IF h.handle = NullHandle
                        THEN {[w |-> [h.w EXCEPT !.objs[o].m_handle = NullHandle],
                               exc |-> "system_error"]}
                        ELSE {[w |-> [v.w EXCEPT !.objs[o].m_handle = h.handle,
                                                 !.objs[o].m_addr = v.addr],
                               exc |-> IF v.addr = InvalidAddr
                                       THEN "system_error" ELSE "none"] :
                                  v \in OsMap(h.w, "MapViewOfFile",
                                              ViewArgs(r1), o)} :
                            h \in OsCreateFileMapping(f.w, FileMappingArgs(r1), o)} :
                     f \in resize_fd(w1, r1, r1.m_fd)} :
          u \in unmap_windows(w, o)}

\* void MemoryMapping::resize(std::size_t new_size)
resize(w, o, new_size) ==
    IF platform = "windows"
    THEN resize_windows(w, o, new_size)
    ELSE resize_unix(w, o, new_size)

\* ------------------------------------------------------------------------
\* The program: operations on the objects, one at a time
\* ------------------------------------------------------------------------

Platforms == {"linux", "unix", "windows"}

\* The builds: each platform with assert() compiled out (NDEBUG) or in. The
\* Windows implementation contains no assert(), so its two builds are one.
Builds ==
    {b \in [platform : Platforms, ndebug : BOOLEAN] :
        b.platform = "windows" => b.ndebug}

\* No MemoryMapping exists and the OS holds no mapping.
MemStart ==
    /\ objs = [o \in Objs |-> NoObj]
    /\ os_maps = <<>>
    /\ os_handles = <<>>
    /\ unmapRefused = FALSE
    /\ calls = <<>>
    /\ exc = "none"
    /\ aborted = FALSE

\* The pipeline alone: no MemoryMapping is used.
MemIdle ==
    /\ platform = "linux"
    /\ ndebug = TRUE
    /\ sizeofT = 1
    /\ fileLen = 0
    /\ MemStart

MemInit ==
    /\ \E b \in Builds : platform = b.platform /\ ndebug = b.ndebug
    /\ sizeofT = 1
    /\ fileLen = 0
    /\ MemStart

\* The state after an operation that ended as out.
Apply(out) ==
    /\ objs' = out.w.objs
    /\ os_maps' = out.w.maps
    /\ os_handles' = out.w.handles
    /\ fileLen' = out.w.fileLen
    /\ unmapRefused' = out.w.refused
    /\ calls' = out.w.calls
    /\ exc' = out.exc
    /\ aborted' = (out.exc \in {"abort", "terminate"})
    /\ UNCHANGED <<platform, ndebug, sizeofT>>
    /\ UNCHANGED pipeVars

\* MemoryMapping o{size, mode, fd, offset};
M_Construct(o, size, mode, fd, offset) ==
    /\ ~aborted
    /\ objs[o].st = "none"
    /\ \E out \in ctor(World, o, size, mode, fd, offset) : Apply(out)

\* MemoryMapping o{std::move(p)};
M_MoveConstruct(o, p) ==
    /\ ~aborted
    /\ o /= p
    /\ objs[o].st = "none"
    /\ objs[p].st = "live"
    /\ \E out \in move_ctor(World, o, p) : Apply(out)

\* o = std::move(p);  (p may be o itself)
M_MoveAssign(o, p) ==
    /\ ~aborted
    /\ objs[o].st = "live"
    /\ objs[p].st = "live"
    /\ \E out \in move_assign(World, o, p) : Apply(out)

\* o.unmap();
M_Unmap(o) ==
    /\ ~aborted
    /\ objs[o].st = "live"
    /\ \E out \in unmap(World, o) : Apply(out)

\* o.resize(new_size);
M_Resize(o, new_size) ==
    /\ ~aborted
    /\ objs[o].st = "live"
    /\ \E out \in resize(World, o, new_size) : Apply(out)

\* o goes out of scope.
M_Destroy(o) ==
    /\ ~aborted
    /\ objs[o].st = "live"
    /\ \E out \in dtor(World, o) : Apply(out)

MemNext ==
    \/ \E o \in Objs, q \in Requests :
          M_Construct(o, q.size, q.mode, q.fd, q.offset)
    \/ \E o \in Objs, p \in Objs : M_MoveConstruct(o, p)
    \/ \E o \in Objs, p \in Objs : M_MoveAssign(o, p)
    \/ \E o \in Objs : M_Unmap(o)
    \/ \E o \in Objs, new_size \in ResizeSizes : M_Resize(o, new_size)
    \/ \E o \in Objs : M_Destroy(o)

\* The MemoryMapping objects alone: the pipeline does not run.
MemStartAll == PipeInit /\ MemInit

MemSpec == MemStartAll /\ [][MemNext]_vars

Init == PipeInit /\ MemIdle

Next ==
    \/ Producer
    \/ C_Pop
    \/ Cancel

Spec == Init /\ [][Next]_vars

\* The producer thread is scheduled, and a consumer that can pop does pop.
FairSpec == Spec /\ WF_vars(Producer) /\ WF_vars(C_Pop)

\* ------------------------------------------------------------------------
\* Properties of the read pipeline
\* ------------------------------------------------------------------------

\* C1: clean run. When the flag was never set and no Decompressor call has
\* failed, a consumer that has popped up to the first empty chunk has seen
\* exactly the non-empty chunks read() returned, in the order read, followed
\* by exactly one empty chunk, and the queue holds nothing.
C1_CleanRun ==
    (cpc = "finished" /\ ~m_done /\ failure = "none") =>
        /\ popped = NonEmpty(reads) \o <<EmptyChunk>>
        /\ popped = reads
        /\ sentinels = 1
        /\ m_queue = <<>>

\* C1 witness: the run "a", "b", "c", then the empty chunk, has completed.
C1_Witness ==
    /\ cpc = "finished" /\ ~m_done /\ failure = "none" /\ pc = "returned"
    /\ popped = <<Chunk(1), Chunk(2), Chunk(3), EmptyChunk>>

\* C2: ordering under every interleaving. The non-empty chunks the consumer
\* has popped are always a prefix of the non-empty chunks read() has
\* returned: nothing is lost before a later chunk, duplicated or reordered.
C2_Order == IsPrefix(NonEmpty(popped), NonEmpty(reads))

\* C2 witness: chunks were delivered in a run with cancellation and a
\* failure of read().
C2_Witness ==
    /\ Len(NonEmpty(popped)) >= 3
    /\ m_done
    /\ failure = "read"

\* C3: sentinel count. In every complete run of the producer thread body
\* (end-of-stream, failure of read() or close(), or cancellation) the empty
\* chunk has been pushed exactly once.
C3_SentinelOnce == Terminated => sentinels = 1

\* C4: liveness. In every fair run in which the producer thread body
\* finishes, the consumer eventually pops an empty chunk.
C4_ConsumerReleased == Terminated ~> (cpc = "finished")

\* C5: cancellation. When the flag is set mid-stream the producer stops
\* and has pushed the empty chunk by the time it stops, so that a consumer
\* waiting on the queue is released.
C5_CancelPushesSentinel == (cancelMid /\ Terminated) => sentinels >= 1

\* C6: failure of read(). When read() throws on its k-th call and the flag
\* is not set, the empty chunk is pushed exactly once and before the
\* exception leaves the thread function, the exception leaves it exactly
\* once, and the consumer receives the k-1 chunks read before, followed
\* immediately by the empty chunk.
C6_ReadFailure ==
    (failure = "read" /\ ~m_done) =>
        /\ thrown <= 1
        /\ sentinels <= 1
        /\ (thrown = 1 => sentinels = 1)
        /\ (pc = "failed" => thrown = 1)
        /\ Len(NonEmpty(reads)) = Len(reads)
        /\ (cpc = "finished" => popped = reads \o <<EmptyChunk>>)

\* C6 witness: read() threw on its second call; the consumer has the one
\* chunk and the empty chunk, and the exception has left the thread.
C6_Witness ==
    /\ failure = "read" /\ ~m_done
    /\ pc = "failed" /\ thrown = 1
    /\ cpc = "finished"
    /\ popped = <<Chunk(1), EmptyChunk>>

\* C7: close. Whenever the read loop has been left (end-of-stream,
\* cancellation, or an exception of read()) and the thread function has
\* ended, Decompressor::close() has been called exactly once.
C7_CloseOnce == Terminated => closeCalls = 1

\* C8 as claimed: with the flag not set, no read() is issued once 10 chunks
\* are pending.
C8_PauseAtTen == (pc = "read" /\ ~m_done) => QueueSize(m_queue) < Watermark

\* C8 as amended: the producer issues a read() and a push only while at
\* most 10 chunks are pending; once more than 10 (that is 11) are pending
\* and the flag is not set it stays in the backpressure loop until it sees
\* the queue at 10 or fewer.
C8_PauseAboveWatermark ==
    /\ (pc \in {"read", "push"}) => QueueSize(m_queue) <= Watermark
    /\ (pc = "while" /\ ~m_done) => QueueSize(m_queue) <= Watermark

\* C8 witness: the producer sleeps with 11 chunks pending.
C8_Witness ==
    /\ pc = "sleep"
    /\ ~m_done
    /\ QueueSize(m_queue) = Watermark + 1

\* The valid objects that hold the mapping at address a.
Holders(a) ==
    {o \in Objs : objs[o].st = "live" /\ is_valid(objs[o])
                  /\ objs[o].m_addr = a}

\* C9: single ownership. While the process runs and the OS has refused no
\* unmap call, every live OS mapping is held by exactly one valid
\* MemoryMapping, and no address is unmapped twice.
C9_SingleOwner ==
    (~aborted /\ ~unmapRefused) =>
        \A a \in 1..Len(os_maps) :
            /\ os_maps[a].live => Cardinality(Holders(a)) = 1
            /\ os_maps[a].unmaps <= 1

\* C10: validity. While the process runs, also after failed OS calls, a
\* MemoryMapping is valid exactly when the address it holds is a live OS
\* mapping, and no mapping or mapping object made on behalf of an invalid
\* MemoryMapping is still live.
C10_ValidIffLive ==
    ~aborted =>
        \A o \in Objs : objs[o].st = "live" =>
            /\ is_valid(objs[o]) <=> LiveAddr(World, objs[o].m_addr)
            /\ ~is_valid(objs[o]) =>
                 /\ \A a \in 1..Len(os_maps) :
                       ~(os_maps[a].live /\ os_maps[a].owner = o)
                 /\ \A h \in 1..Len(os_handles) :
                       ~(os_handles[h].live /\ os_handles[h].owner = o)

\* ------------------------------------------------------------------------
\* Properties of MemoryMapping operations
\* ------------------------------------------------------------------------

\* The OS calls that release a mapping or a mapping object.
ReleaseCalls == {"munmap", "UnmapViewOfFile", "CloseHandle"}

\* r holds nothing the OS knows: no mapping, and no mapping object.
HoldsNothing(r) == ~is_valid(r) /\ r.m_handle = NullHandle

\* What a move of p to o that returned leaves, from the state w to out.w.
MovePost(w, out, o, p) ==
    /\ HoldsNothing(out.w.objs[p])
    /\ out.w.objs[o].m_size = w.objs[p].m_size
    /\ out.w.objs[o].m_offset = w.objs[p].m_offset
    /\ out.w.objs[o].m_fd = w.objs[p].m_fd
    /\ out.w.objs[o].m_mapping_mode = w.objs[p].m_mapping_mode
    /\ (o /= p) => /\ out.w.objs[o].m_addr = w.objs[p].m_addr
                   /\ out.w.objs[o].m_handle = w.objs[p].m_handle
    /\ \A i \in 1..Len(out.w.calls) :
          /\ out.w.calls[i].call \in ReleaseCalls
          /\ out.w.calls[i].args \in {<<w.objs[o].m_addr>>,
                                      <<w.objs[o].m_handle>>}

\* C11: move. In every reachable state, whenever o is move-constructed or
\* move-assigned from p and the operation returns, p is invalid afterwards
\* (and holds no mapping object), o has the size, offset, descriptor and
\* mode p had, and, when o is another object than p, the address (and the
\* mapping object) p had. A move-construction makes no OS call and a
\* move-assignment only the calls that release what o held. An unmap() or
\* a destruction of an object that holds nothing, as a moved-from object
\* does, makes no OS call and raises nothing.
C11_Move ==
    ~aborted =>
        \A o \in Objs, p \in Objs :
            /\ (o /= p /\ objs[o].st = "none" /\ objs[p].st = "live") =>
                  \A out \in move_ctor(World, o, p) :
                      /\ out.exc = "none"
                      /\ out.w.calls = <<>>
                      /\ MovePost(World, out, o, p)
            /\ (objs[o].st = "live" /\ objs[p].st = "live") =>
                  \A out \in move_assign(World, o, p) :
                      out.exc = "none" => MovePost(World, out, o, p)
            /\ (objs[p].st = "live" /\ HoldsNothing(objs[p])) =>
                  \A out \in unmap(World, p) \cup dtor(World, p) :
                      out.w.calls = <<>> /\ out.exc = "none"

\* C11 witness: only one mapping was ever made, b holds it, and a exists and
\* holds nothing: the mapping was moved from a to b, without an OS call.
C11_Witness ==
    /\ Len(os_maps) = 1
    /\ objs["b"].st = "live" /\ objs["b"].m_addr = 1 /\ os_maps[1].live
    /\ objs["a"].st = "live" /\ HoldsNothing(objs["a"])
    /\ objs["a"].m_size = objs["b"].m_size
    /\ calls = <<>>
    /\ exc = "none"

\* The state w as the next operation finds it: with an empty call log.
Fresh(w) == [w EXCEPT !.calls = <<>>]

\* The addresses of the live mappings and the handles of the live mapping
\* objects.
LiveSet(w) ==
    <<{a \in 1..Len(w.maps) : w.maps[a].live},
      {h \in 1..Len(w.handles) : w.handles[h].live}>>

\* C12: unmap idempotence. In every reachable state, for every valid object
\* o, whenever o.unmap() returns, o is invalid, and a further o.unmap(), or
\* the destruction of o, makes no OS call, raises nothing and changes neither
\* the object (the unmap) nor what the OS holds.
C12_UnmapIdempotent ==
    ~aborted =>
        \A o \in Objs : (objs[o].st = "live" /\ is_valid(objs[o])) =>
            \A out \in unmap(World, o) : out.exc = "none" =>
                /\ ~is_valid(out.w.objs[o])
                /\ \A again \in unmap(Fresh(out.w), o) :
                      /\ again.exc = "none"
                      /\ again.w = Fresh(out.w)
                /\ \A gone \in dtor(Fresh(out.w), o) :
                      /\ gone.exc = "none"
                      /\ gone.w.calls = <<>>
                      /\ LiveSet(gone.w) = LiveSet(out.w)

\* C12 witness: a's mapping, the only one ever made, has been unmapped
\* once, a still exists and is invalid, and the last operation, a further
\* unmap, made no OS call.
C12_Witness ==
    /\ Len(os_maps) = 1 /\ ~os_maps[1].live /\ os_maps[1].unmaps = 1
    /\ objs["a"].st = "live" /\ HoldsNothing(objs["a"])
    /\ objs["b"].st = "none"
    /\ calls = <<>>
    /\ exc = "none"

\* ------------------------------------------------------------------------
\* One MemoryMapping, constructed from every kind of request
\* ------------------------------------------------------------------------

\* The largest size a caller asks for.
MaxSize == 2

\* Every request a caller can make of the constructor: any size from 0, any
\* mode, anonymous or on the file, at the start of the file or at an offset.
AllRequests ==
    {q \in [size : 0..MaxSize, mode : Modes, fd : {AnonFd, 3},
            offset : {0, 1}] :
        q.fd = AnonFd => q.offset = 0}

\* The file is empty, or has some length already.
CreateInit ==
    /\ PipeInit
    /\ \E b \in Builds : platform = b.platform /\ ndebug = b.ndebug
    /\ sizeofT = 1
    /\ fileLen \in 0..MaxSize
    /\ MemStart

CreateNext ==
    \/ \E q \in AllRequests : M_Construct("a", q.size, q.mode, q.fd, q.offset)
    \/ M_Unmap("a")
    \/ \E new_size \in ResizeSizes : M_Resize("a", new_size)
    \/ M_Destroy("a")

CreateSpec == CreateInit /\ [][CreateNext]_vars

\* A request the documentation allows: size 0 only for a writable mapping.
ValidRequest(q) == q.size > 0 \/ q.mode /= "readonly"

\* C13: create. In every reachable state, for every allowed request, whenever
\* the constructor returns, the object is valid, its address is a live
\* mapping, and its size is the size asked for, or the page size when the
\* size asked for was 0.
C13_Create ==
    ~aborted =>
        \A o \in Objs : objs[o].st = "none" =>
            \A q \in AllRequests : ValidRequest(q) =>
                \A out \in ctor(World, o, q.size, q.mode, q.fd, q.offset) :
                    out.exc = "none" =>
                        /\ is_valid(out.w.objs[o])
                        /\ LiveAddr(out.w, out.w.objs[o].m_addr)
                        /\ out.w.objs[o].m_size =
                              IF q.size = 0 THEN PageSize ELSE q.size

\* C13 witness: the constructor of a has just returned; a is valid and
\* holds a live shared writable mapping of one page, the first ever made.
C13_Witness ==
    /\ objs["a"].st = "live" /\ is_valid(objs["a"])
    /\ LiveAddr(World, objs["a"].m_addr)
    /\ objs["a"].m_size = PageSize
    /\ objs["a"].m_mapping_mode = "write_shared"
    /\ Len(calls) > 0 /\ calls[Len(calls)].call \in {"mmap", "MapViewOfFile"}
    /\ calls[Len(calls)].ok
    /\ exc = "none"
    /\ Len(os_maps) = 1

\* The OS calls that make a mapping or a mapping object.
MapCalls == {"mmap", "MapViewOfFile", "CreateFileMapping"}

\* C14: file length. In every reachable state the file behind a valid
\* file-based object is at least m_offset + m_size long. And for every
\* file-based request, whenever the constructor makes a mapping call, the
\* file is at least offset + size long at that call: it was long enough
\* before, or the constructor's first call has grown it to offset + size.
C14_FileLength ==
    ~aborted =>
        /\ \A o \in Objs :
              (objs[o].st = "live" /\ is_valid(objs[o])
               /\ objs[o].m_fd /= AnonFd) =>
                  fileLen >= objs[o].m_offset + objs[o].m_size
        /\ \A o \in Objs : objs[o].st = "none" =>
              \A q \in AllRequests : q.fd /= AnonFd =>
                  \A out \in ctor(World, o, q.size, q.mode, q.fd, q.offset) :
                      \A i \in 1..Len(out.w.calls) :
                          out.w.calls[i].call \in MapCalls =>
                              /\ out.w.fileLen >= q.offset + check_size(q.size)
                              /\ \/ fileLen >= q.offset + check_size(q.size)
                                 \/ /\ i > 1
                                    /\ out.w.calls[1] =
                                         [call |-> "ftruncate",
                                          args |-> <<q.fd, q.offset
                                                       + check_size(q.size)>>,
                                          ok |-> TRUE]

\* C14 witness: the constructor of a has grown the file and then mapped it;
\* a is valid and the file is exactly m_offset + m_size long.
C14_Witness ==
    /\ objs["a"].st = "live" /\ is_valid(objs["a"])
    /\ objs["a"].m_fd /= AnonFd
    /\ objs["a"].m_offset = 1
    /\ fileLen = objs["a"].m_offset + objs["a"].m_size
    /\ Len(calls) >= 2
    /\ calls[1].call = "ftruncate" /\ calls[1].ok
    /\ calls[Len(calls)].call \in MapCalls /\ calls[Len(calls)].ok
    /\ exc = "none"

\* C15: resize result. In every reachable state, for every object and every
\* new size n > 0, whenever resize(n) returns, the object is valid and its
\* size is n.
C15_ResizeResult ==
    ~aborted =>
        \A o \in Objs : objs[o].st = "live" =>
            \A n \in ResizeSizes :
                \A out \in resize(World, o, n) : out.exc = "none" =>
                    /\ is_valid(out.w.objs[o])
                    /\ out.w.objs[o].m_size = n

\* C16: anonymous resize where the platform cannot grow a mapping in place.
\* In every reachable state of a build that is not for Linux, resize() on a
\* valid anonymous object does not return normally, makes no OS call and
\* leaves the object as it was.
C16_AnonResizeRejected ==
    (~aborted /\ platform /= "linux") =>
        \A o \in Objs :
            (objs[o].st = "live" /\ is_valid(objs[o])
             /\ objs[o].m_fd = AnonFd) =>
                \A n \in ResizeSizes :
                    \A out \in resize(World, o, n) :
                        /\ out.exc /= "none"
                        /\ out.w.calls = <<>>
                        /\ out.w.objs[o] = objs[o]

\* The OS calls that make, release or move a mapping or a mapping object.
MappingCalls == MapCalls \cup ReleaseCalls \cup {"mremap"}

\* One of the mapping calls the operation made has failed.
MappingCallFailed(out) ==
    \E i \in 1..Len(out.w.calls) :
        out.w.calls[i].call \in MappingCalls /\ ~out.w.calls[i].ok

\* C17: failure propagation. In every reachable state, whenever a mapping
\* call fails inside the constructor, unmap(), resize() or move assignment,
\* the operation throws std::system_error.
C17_FailureSurfaced ==
    ~aborted =>
        \A o \in Objs :
            /\ objs[o].st = "none" =>
                  \A q \in Requests :
                      \A out \in ctor(World, o, q.size, q.mode, q.fd, q.offset) :
                          MappingCallFailed(out) => out.exc = "system_error"
            /\ objs[o].st = "live" =>
                  /\ \A out \in unmap(World, o) :
                        MappingCallFailed(out) => out.exc = "system_error"
                  /\ \A n \in ResizeSizes : \A out \in resize(World, o, n) :
                        MappingCallFailed(out) => out.exc = "system_error"
                  /\ \A p \in Objs : objs[p].st = "live" =>
                        \A out \in move_assign(World, o, p) :
                            MappingCallFailed(out) => out.exc = "system_error"

C19_MoveAssignReleases ==
    ~aborted =>
        \A o \in Objs, p \in Objs :
            (objs[o].st = "live" /\ objs[p].st = "live"
             /\ LiveAddr(World, objs[o].m_addr)) =>
                \A out \in move_assign(World, o, p) : out.exc = "none" =>
                    /\ ~LiveAddr(out.w, objs[o].m_addr)
                    /\ out.w.maps[objs[o].m_addr].unmaps = 1

\* C20: zero-size rule. In every reachable state, for every request: with
\* size 0 and mode readonly the constructor ends in a failed assert() and
\* leaves no new mapping; with size 0 and a writable mode a constructor that
\* returns gives a mapping of one page; with a size > 0 and mode readonly
\* the constructor does not end in a failed assert().
C20_ZeroSize ==
    ~aborted =>
        \A o \in Objs : objs[o].st = "none" =>
            \A q \in AllRequests :
                \A out \in ctor(World, o, q.size, q.mode, q.fd, q.offset) :
                    /\ (q.size = 0 /\ q.mode = "readonly") =>
                          /\ out.exc = "abort"
                          /\ LiveSet(out.w) = LiveSet(World)
                    /\ (q.size = 0 /\ q.mode /= "readonly"
                        /\ out.exc = "none") =>
                          out.w.objs[o].m_size = PageSize
                    /\ (q.size > 0 /\ q.mode = "readonly") =>
                          out.exc /= "abort"

\* ------------------------------------------------------------------------
\* TypedMemoryMapping<T>: a MemoryMapping m_mapping seen as an array of T.
\* The object named o is the m_mapping of the typed mapping named o.
\* ------------------------------------------------------------------------

\* The largest sizeof(T).
MaxElemSize == 3

\* The largest number of elements a caller asks for.
MaxCount == 2

\* The sizes of T: a byte, and a larger type.
ElemSizes == {1, MaxElemSize}

\* explicit TypedMemoryMapping(std::size_t size)
typed_ctor_anon(w, o, size) ==
    ctor(w, o, sizeofT * size, "write_private", AnonFd, 0)

\* TypedMemoryMapping(std::size_t size, mapping_mode mode, int fd,
\*                    off_t offset = 0)
typed_ctor_file(w, o, size, mode, fd, offset) ==
    ctor(w, o, sizeofT * size, mode, fd, sizeofT * offset)

\* Mutant of typed_resize: the count is passed on as a number of bytes.
typed_resize_Bytes(w, o, new_size) == resize(w, o, new_size)

\* void TypedMemoryMapping::resize(std::size_t new_size)
typed_resize(w, o, new_size) == resize(w, o, sizeofT * new_size)

\* std::size_t TypedMemoryMapping::size() const noexcept
\* The value returned; the assert() is in T_Size.
typed_size(r) == r.m_size \div sizeofT

\* TypedMemoryMapping<T> o{size};
T_Construct(o, size) ==
    /\ ~aborted
    /\ objs[o].st = "none"
    /\ \E out \in typed_ctor_anon(World, o, size) : Apply(out)

\* TypedMemoryMapping<T> o{size, mode, fd, offset};
T_ConstructFile(o, size, mode, fd, offset) ==
    /\ ~aborted
    /\ objs[o].st = "none"
    /\ \E out \in typed_ctor_file(World, o, size, mode, fd, offset) :
          Apply(out)

\* o.resize(new_size);
T_Resize(o, new_size) ==
    /\ ~aborted
    /\ objs[o].st = "live"
    /\ \E out \in typed_resize(World, o, new_size) : Apply(out)

\* o.size();  with assert(m_mapping.size() % sizeof(T) == 0)
T_Size(o) ==
    /\ ~aborted
    /\ objs[o].st = "live"
    /\ Apply([w |-> World,
              exc |-> IF AssertFails(objs[o].m_size % sizeofT = 0)
                      THEN "abort" ELSE "none"])

\* No typed mapping exists; T has some size.
TypedInit ==
    /\ PipeInit
    /\ \E b \in Builds : platform = b.platform /\ ndebug = b.ndebug
    /\ sizeofT \in ElemSizes
    /\ fileLen = 0
    /\ MemStart

\* The program constructs the typed mapping a, resizes it, asks for its
\* size, unmaps it and destroys it.
TypedNext ==
    \/ \E size \in 0..MaxCount : T_Construct("a", size)
    \/ \E size \in 0..MaxCount, mode \in Modes, offset \in {0, 1} :
          T_ConstructFile("a", size, mode, 3, offset)
    \/ \E new_size \in 1..MaxCount : T_Resize("a", new_size)
    \/ T_Size("a")
    \/ M_Unmap("a")
    \/ M_Destroy("a")

TypedSpec == TypedInit /\ [][TypedNext]_vars

\* C21: TypedMemoryMapping size invariant. In every reachable state the
\* byte size of every typed mapping is a multiple of sizeof(T), so that
\* size() * sizeof(T) is the byte size.
C21_TypedSize ==
    ~aborted =>
        \A o \in Objs : objs[o].st = "live" =>
            /\ objs[o].m_size % sizeofT = 0
            /\ typed_size(objs[o]) * sizeofT = objs[o].m_size

\* What a mapping call asks of the OS, read from the protection and flags
\* among its arguments: may the memory be written, and are writes shared
\* (seen by other mappings and carried to a backing file) or private.
AsksWrite(c) ==
    CASE c.call = "mmap" -> "PROT_WRITE" \in c.args[2]
      [] c.call = "CreateFileMapping" -> c.args[2] # {"PAGE_READONLY"}
      [] c.call = "MapViewOfFile" -> c.args[1] # {"FILE_MAP_READ"}

AsksRead(c) ==
    CASE c.call = "mmap" -> "PROT_READ" \in c.args[2]
      [] c.call = "CreateFileMapping" -> TRUE
      [] c.call = "MapViewOfFile" -> TRUE

AsksShared(c) ==
    CASE c.call = "mmap" -> "MAP_SHARED" \in c.args[3]
      [] c.call = "CreateFileMapping" -> c.args[2] = {"PAGE_READWRITE"}
      [] c.call = "MapViewOfFile" -> c.args[1] = {"FILE_MAP_WRITE"}

\* The row of the protection/sharing table for the mode.
FitsMode(c, mode) ==
    /\ AsksRead(c)
    /\ mode = "readonly" => ~AsksWrite(c)
    /\ mode = "write_private" => AsksWrite(c) /\ ~AsksShared(c)
    /\ mode = "write_shared" => AsksWrite(c) /\ AsksShared(c)

CallsFitMode(w, mode) ==
    \A i \in 1..Len(w.calls) :
        w.calls[i].call \in MapCalls => FitsMode(w.calls[i], mode)

\* C22: protection/sharing table. Every mapping call made by a create, for
\* every mode, anonymous or file-backed, and every mapping call made by a
\* resize, asks for the access and sharing of the region's mode: readonly
\* read without write, write_private read and write with private writes,
\* write_shared read and write with shared writes.
C22_ProtectionSharing ==
    ~aborted =>
        /\ objs["a"].st = "none" =>
              \A q \in AllRequests :
                  \A out \in ctor(World, "a", q.size, q.mode, q.fd,
                                  q.offset) :
                      CallsFitMode(out.w, q.mode)
        /\ objs["a"].st = "live" =>
              \A n \in ResizeSizes :
                  \A out \in resize(World, "a", n) :
                      CallsFitMode(out.w, objs["a"].m_mapping_mode)

\* The step pushes the chunk x onto the queue.
Pushes(x) == m_queue' = QueuePush(m_queue, x)

\* C23: the sentinel is terminal. Once an empty chunk has been pushed, no
\* step of the producer calls read() and no step pushes a non-empty chunk;
\* and a consumer that has stopped at the first empty chunk has popped every
\* data chunk read() ever returned.
C23_SentinelTerminal ==
    /\ [](cpc = "finished" => NonEmpty(popped) = NonEmpty(reads))
    /\ [][sentinels >= 1 =>
            /\ ~P_Read
            /\ \A k \in 1..MaxChunks : ~Pushes(Chunk(k))]_vars

\* The stream had data, its end was pushed as an empty chunk, the consumer
\* has popped it and stopped, and the producer has returned.
C23_Witness ==
    /\ sentinels >= 1
    /\ cpc = "finished"
    /\ Len(NonEmpty(popped)) >= 2
    /\ pc = "returned"

\* The producer thread is scheduled; nothing is assumed of the consumer,
\* which may never pop again.
ProducerFairSpec == Spec /\ WF_vars(Producer)

\* The calls of read() completed since the flag was set, those that threw
\* included.
ReadsSinceCancel ==
    (Len(reads) - cancelAt.reads)
    + (IF failure = "read" /\ cancelAt.failure = "none" THEN 1 ELSE 0)

\* The chunks pushed since the flag was set.
PushesSinceCancel == Len(popped) + QueueSize(m_queue) - cancelAt.pushes

\* C24 as claimed: once the flag is set the producer completes at most one
\* read(), pushes at most one further chunk, does not go to sleep in the
\* backpressure wait again, and terminates whatever the consumer does.
C24_CancelResponse ==
    /\ [](m_done => ReadsSinceCancel <= 1 /\ PushesSinceCancel <= 1)
    /\ [][m_done /\ pc # "sleep" => pc' # "sleep"]_vars
    /\ (m_done ~> Terminated)

\* The chunks pushed since the flag was set, in order.
PushedSinceCancel ==
    SubSeq(popped \o m_queue, cancelAt.pushes + 1,
           Len(popped) + QueueSize(m_queue))

\* C24 as amended: as claimed, but the producer pushes at most one chunk
\* that read() returned and, if read() or close() throws, one empty chunk
\* more from its catch block: at most two further chunks, the second only
\* after a failure, and at most one of them non-empty.
C24_CancelResponseTwo ==
    /\ [](m_done =>
            /\ ReadsSinceCancel <= 1
            /\ PushesSinceCancel <= 2
            /\ (failure = "none" => PushesSinceCancel <= 1)
            /\ Len(NonEmpty(PushedSinceCancel)) <= 1)
    /\ [][m_done /\ pc # "sleep" => pc' # "sleep"]_vars
    /\ (m_done ~> Terminated)

\* The flag was set while a read() was in progress with eleven chunks
\* pending; the read() returned a chunk, the producer pushed it, left the
\* wait without sleeping and has returned; the consumer popped nothing.
C24_Witness ==
    /\ m_done
    /\ pc = "returned"
    /\ ReadsSinceCancel = 1
    /\ PushesSinceCancel = 1
    /\ QueueSize(m_queue) > Watermark
    /\ popped = <<>>

\* A successful OS call.
Ok(name, args) == [call |-> name, args |-> args, ok |-> TRUE]

\* The OS calls of a successful resize(n) of the valid file-backed region r
\* while the file has length len: release, growth of the file when it is
\* shorter than n + offset, and a mapping of n bytes at the offset, with the
\* protection and sharing of r.
ResizeCalls(r, n, len) ==
    (IF platform = "windows"
     THEN <<Ok("UnmapViewOfFile", <<r.m_addr>>),
            Ok("CloseHandle", <<r.m_handle>>)>>
     ELSE <<Ok("munmap", <<r.m_addr>>)>>)
    \o (IF len < n + r.m_offset
        THEN <<Ok("ftruncate", <<r.m_fd, n + r.m_offset>>)>>
        ELSE <<>>)
    \o (IF platform = "windows"
        THEN <<Ok("CreateFileMapping",
                  <<r.m_fd, get_protection(r), n + r.m_offset>>),
               Ok("MapViewOfFile", <<get_flags(r), r.m_offset, n>>)>>
        ELSE <<Ok("mmap", <<n, get_protection(r), get_flags(r), r.m_fd,
                            r.m_offset>>)>>)

AsksBytes(c, size, offset) ==
    CASE c.call = "mmap" -> c.args[1] = size /\ c.args[5] = offset
      [] c.call = "MapViewOfFile" -> c.args[3] = size /\ c.args[2] = offset
      [] c.call = "CreateFileMapping" -> c.args[3] = size + offset

\* Every mapping call of the operation asks for size bytes at offset, and
\* if the operation returned, the region o has that size and offset.
TypedRequest(out, o, size, offset) ==
    /\ \A i \in 1..Len(out.w.calls) :
          out.w.calls[i].call \in MapCalls =>
              AsksBytes(out.w.calls[i], size, offset)
    /\ out.exc = "none" =>
          /\ is_valid(out.w.objs[o])
          /\ out.w.objs[o].m_size = size
          /\ out.w.objs[o].m_offset = offset

\* resize(new_count) of a valid file-backed typed mapping asks for
\* sizeof(T) * new_count bytes at the byte offset the region has.
TypedResizeRequest ==
    (objs["a"].st = "live" /\ is_valid(objs["a"])
     /\ objs["a"].m_fd # AnonFd) =>
        \A n \in 1..MaxCount :
            \A out \in typed_resize(World, "a", n) :
                out.exc # "abort" =>
                    TypedRequest(out, "a", sizeofT * n, objs["a"].m_offset)

\* C26 as claimed: the file-backed typed constructor maps exactly
\* sizeof(T) * count bytes at byte offset sizeof(T) * offset, for every
\* count, and resize(new_count) asks for sizeof(T) * new_count bytes at the
\* same byte offset.
C26_TypedFileAnyCount ==
    ~aborted =>
        /\ objs["a"].st = "none" =>
              \A count \in 0..MaxCount, mode \in Modes, offset \in {0, 1} :
                  \A out \in typed_ctor_file(World, "a", count, mode, 3,
                                             offset) :
                      out.exc # "abort" =>
                          TypedRequest(out, "a", sizeofT * count,
                                       sizeofT * offset)
        /\ TypedResizeRequest

\* C26 as amended: as claimed for a count above 0; for a count of 0 the
\* constructor maps one page at byte offset sizeof(T) * offset.
C26_TypedFile ==
    ~aborted =>
        /\ objs["a"].st = "none" =>
              \A count \in 0..MaxCount, mode \in Modes, offset \in {0, 1} :
                  \A out \in typed_ctor_file(World, "a", count, mode, 3,
                                             offset) :
                      out.exc # "abort" =>
                          TypedRequest(out, "a",
                                       IF count = 0 THEN PageSize
                                       ELSE sizeofT * count,
                                       sizeofT * offset)
        /\ TypedResizeRequest

\* The typed mapping a of 3-byte elements, made at element offset 1, has
\* just been resized to 2 elements: 6 bytes at byte offset 3.
C26_Witness ==
    /\ ~aborted
    /\ exc = "none"
    /\ sizeofT = 3
    /\ objs["a"].st = "live"
    /\ is_valid(objs["a"])
    /\ objs["a"].m_fd = 3
    /\ objs["a"].m_offset = 3
    /\ objs["a"].m_size = 6
    /\ Len(calls) >= 2
    /\ calls[1].call \in {"munmap", "UnmapViewOfFile"}
    /\ calls[Len(calls)].call \in {"mmap", "MapViewOfFile"}
    /\ calls[Len(calls)].ok

\* C27 as claimed: the queue never holds more than 11 chunks, and no read()
\* is started with more than 10 pending.
C27_QueueBound ==
    /\ QueueSize(m_queue) <= Watermark + 1
    /\ pc = "read" => QueueSize(m_queue) <= Watermark

\* C27 as amended: the queue never holds more than 12 chunks, of which at
\* most 11 are data; it holds 12 only after close() has thrown with 11
\* pending, the twelfth being the empty chunk of the catch block; and no
\* read() is started with more than 10 pending.
C27_QueueBoundTwelve ==
    /\ QueueSize(m_queue) <= Watermark + 2
    /\ Len(NonEmpty(m_queue)) <= Watermark + 1
    /\ QueueSize(m_queue) = Watermark + 2 =>
          /\ failure = "close"
          /\ Empty(m_queue[QueueSize(m_queue)])
    /\ pc = "read" => QueueSize(m_queue) <= Watermark

\* The flag was set while the producer waited with 11 data chunks pending,
\* close() threw, and the catch block has pushed the twelfth chunk.
C27_Witness ==
    /\ QueueSize(m_queue) = Watermark + 2
    /\ Len(NonEmpty(m_queue)) = Watermark + 1
    /\ m_done
    /\ pc = "failed"

\* The OS calls that unmap a region.
UnmapCalls == {"munmap", "UnmapViewOfFile"}

\* The operation's OS unmap call failed.
UnmapCallFailed(out) ==
    \E i \in 1..Len(out.w.calls) :
        out.w.calls[i].call \in UnmapCalls /\ ~out.w.calls[i].ok

\* C28: unmap failure. When unmap() is called on a valid region and the OS
\* unmap call fails, unmap() throws std::system_error and the region is as
\* it was: valid, with the same size, offset, descriptor, mode, address and
\* (Windows) mapping handle; a second unmap() makes the same OS call again.
C28_UnmapFailure ==
    ~aborted =>
        \A o \in Objs : (objs[o].st = "live" /\ is_valid(objs[o])) =>
            \A out \in unmap(World, o) : UnmapCallFailed(out) =>
                /\ out.exc = "system_error"
                /\ out.w.objs[o] = objs[o]
                /\ is_valid(out.w.objs[o])
                /\ Len(out.w.calls) = 1
                /\ \A again \in unmap([out.w EXCEPT !.calls = <<>>], o) :
                      /\ again.w.calls[1].call = out.w.calls[1].call
                      /\ again.w.calls[1].args = <<objs[o].m_addr>>

\* a.unmap() has just thrown: the OS refused the call, a is still valid and
\* its mapping is still live.
C28_Witness ==
    /\ ~aborted
    /\ exc = "system_error"
    /\ Len(calls) = 1
    /\ calls[1].call \in UnmapCalls
    /\ ~calls[1].ok
    /\ objs["a"].st = "live"
    /\ is_valid(objs["a"])
    /\ calls[1].args = <<objs["a"].m_addr>>
    /\ LiveAddr(World, objs["a"].m_addr)

\* C29: create failure. Whenever the constructor throws std::system_error,
\* the OS holds the live mappings and mapping objects it held before the
\* call: a mapping object made by a constructor whose MapViewOfFile then
\* failed has been closed.
C29_CreateFailure ==
    (~aborted /\ objs["a"].st = "none") =>
            \A q \in AllRequests :
                \A out \in ctor(World, "a", q.size, q.mode, q.fd, q.offset) :
                    out.exc = "system_error" =>
                        LiveSet(out.w) = LiveSet(World)

\* The operation, asked for size bytes at offset, left the file at least as
\* long as it was; it changed the file's length in one case only, by one
\* successful call that set it to size + offset, longer than it was.
FileOnlyGrows(out, size, offset) ==
    LET grows == {i \in 1..Len(out.w.calls) :
                      out.w.calls[i].call = "ftruncate"}
    IN  /\ out.w.fileLen >= fileLen
        /\ \A i \in grows :
              /\ out.w.calls[i].args[2] = size + offset
              /\ fileLen < size + offset
              /\ out.w.calls[i].ok => out.w.fileLen = size + offset
        /\ out.w.fileLen # fileLen =>
              \E i \in grows : out.w.calls[i].ok
        /\ Cardinality(grows) <= 1

\* C30: the backing file never shrinks. Every create and every resize, to
\* a larger or to a smaller size, successful or not, leaves the file at
\* least as long as it was, and changes its length only when that was below
\* size + offset, and then to exactly size + offset.
C30_FileNeverShrinks ==
    ~aborted =>
        /\ objs["a"].st = "none" =>
              \A q \in AllRequests :
                  \A out \in ctor(World, "a", q.size, q.mode, q.fd,
                                  q.offset) :
                      FileOnlyGrows(out, check_size(q.size), q.offset)
        /\ objs["a"].st = "live" =>
              \A n \in ResizeSizes :
                  \A out \in resize(World, "a", n) :
                      FileOnlyGrows(out, n, objs["a"].m_offset)
        /\ \A o \in Objs : objs[o].st = "live" =>
              \A out \in unmap(World, o) \cup dtor(World, o) :
                  out.w.fileLen = fileLen

\* The file was grown to 3 for a region of 2 bytes at offset 1; a.resize(1)
\* has just returned, and the file is still 3 long.
C30_Witness ==
    /\ ~aborted
    /\ exc = "none"
    /\ objs["a"].st = "live"
    /\ is_valid(objs["a"])
    /\ objs["a"].m_offset = 1
    /\ objs["a"].m_size = 1
    /\ fileLen = 3
    /\ Len(calls) >= 2
    /\ calls[1].call \in {"munmap", "UnmapViewOfFile"}
    /\ \A i \in 1..Len(calls) : calls[i].call # "ftruncate"

====
